---- MODULE Spec2Model ----
(***************************************************************************)
(* Model of clip.py (Droidrun Portal clipboard manager): the clipboard     *)
(* facade DroidrunClipboard with its two transports (HTTP socket server,   *)
(* ADB ContentProvider), the availability probe, the command line entry    *)
(* point main() and the self-test harness.                                 *)
(*                                                                         *)
(* A text is a sequence of one-character strings.  The device (shell,      *)
(* content provider, socket server) is the environment: every external     *)
(* call draws its outcome from a small set, and a device that answers      *)
(* does what a POSIX shell / a JSON codec does with the bytes it is given. *)
(*                                                                         *)
(* Assumed of the environment: the `requests` package can be imported, and *)
(* a JSON object the device sends has the documented shape (its data, when *)
(* present, is a string).  The code is single threaded: every action is    *)
(* one whole call.                                                         *)
(***************************************************************************)
EXTENDS Naturals, Sequences, FiniteSets

\* ---------------------------------------------------------------- bounds
\* Longest text a caller hands to set(), in the specification Spec.
MaxShort == 1
\* Longest text a caller hands to set(), in the specification SpecText.
MaxLen == 2
\* Longest stdout (in lines) of the `content query` command.
MaxLines == 2

\* ---------------------------------------------------------------- texts
BS == "\\"
SQ == "'"
DQ == "\""
NL == "\n"
\* "n" is the ordinary character: it is also the letter of the JSON escape \n.
Char == {"n", SQ, BS, DQ, NL}
TextsUpTo(n) == UNION {[1..k -> Char] : k \in 0..n}

RECURSIVE Replace(_, _, _)
\* str.replace(c, r) for a one-character pattern c.
Replace(s, c, r) ==
  IF s = <<>> THEN <<>>
  ELSE (IF Head(s) = c THEN r ELSE <<Head(s)>>) \o Replace(Tail(s), c, r)

\* clip.py:181  text.replace("\\", "\\\\").replace("'", "'\\''")
escaped_text(text) ==
  Replace(Replace(text, BS, <<BS, BS>>), SQ, <<SQ, BS, SQ, SQ>>)

\* The unquoted words of the insert command, blank separated (clip.py:184).
CmdWords == <<"content", "insert", "--uri",
              "content://com.droidrun.portal/clipboard/set", "--bind">>
CmdPrefix == <<"content", " ", "insert", " ", "--uri", " ",
               "content://com.droidrun.portal/clipboard/set", " ", "--bind", " ">>

\* clip.py:184  the command line handed to `adb shell`; "text:s:" is one atom.
cmd(text) == CmdPrefix \o <<SQ, "text:s:">> \o escaped_text(text) \o <<SQ>>

RECURSIVE ShellWords(_, _, _, _, _)
\* Word splitting and quote removal of a POSIX shell over the command string:
\* mode is "plain", "single" or "double"; cur is the word being built, open
\* says whether a word has been started, words are the finished words.
ShellWords(s, mode, cur, open, words) ==
  IF s = <<>> THEN
    [ok |-> mode = "plain", words |-> IF open THEN Append(words, cur) ELSE words]
  ELSE
    LET c == Head(s)
        r == Tail(s)
    IN  CASE mode = "single" ->
               IF c = SQ THEN ShellWords(r, "plain", cur, TRUE, words)
               ELSE ShellWords(r, "single", Append(cur, c), TRUE, words)
          [] mode = "double" ->
               IF c = DQ THEN ShellWords(r, "plain", cur, TRUE, words)
               ELSE IF c = BS /\ r # <<>> /\ Head(r) \in {BS, DQ}
                 THEN ShellWords(Tail(r), "double", Append(cur, Head(r)), TRUE, words)
               ELSE ShellWords(r, "double", Append(cur, c), TRUE, words)
          [] OTHER ->
               IF c = SQ THEN ShellWords(r, "single", cur, TRUE, words)
               ELSE IF c = DQ THEN ShellWords(r, "double", cur, TRUE, words)
               ELSE IF c = BS THEN
                 IF r = <<>> THEN ShellWords(r, "plain", Append(cur, c), TRUE, words)
                 ELSE IF Head(r) = NL THEN ShellWords(Tail(r), "plain", cur, open, words)
                 ELSE ShellWords(Tail(r), "plain", Append(cur, Head(r)), TRUE, words)
               ELSE IF c \in {" ", NL} THEN
                 ShellWords(r, "plain", <<>>, FALSE,
                            IF open THEN Append(words, cur) ELSE words)
               ELSE ShellWords(r, "plain", Append(cur, c), TRUE, words)

ShellParse(s) == ShellWords(s, "plain", <<>>, FALSE, <<>>)

\* What `adb shell <cmd>` does on a device that runs the command: the shell
\* splits it, `content insert` takes the value after the text:s: binding.
\* A command that does not parse, or is no insert with one binding, exits 1.
DeviceInsert(c, clip) ==
  LET p == ShellParse(c)
  IN  IF /\ p.ok
         /\ Len(p.words) = Len(CmdWords) + 1
         /\ SubSeq(p.words, 1, Len(CmdWords)) = [i \in 1..Len(CmdWords) |-> <<CmdWords[i]>>]
         /\ p.words[Len(p.words)] # <<>>
         /\ Head(p.words[Len(p.words)]) = "text:s:"
      THEN [rc |-> 0, clip |-> Tail(p.words[Len(p.words)])]
      ELSE [rc |-> 1, clip |-> clip]

RECURSIVE JsonEnc(_)
\* The body of a JSON string literal (json.dumps without the outer quotes).
JsonEnc(s) ==
  IF s = <<>> THEN <<>>
  ELSE LET c == Head(s)
       IN (CASE c = DQ -> <<BS, DQ>>
             [] c = BS -> <<BS, BS>>
             [] c = NL -> <<BS, "n">>
             [] OTHER  -> <<c>>) \o JsonEnc(Tail(s))

RECURSIVE JsonDecFrom(_, _)
\* json.loads of a string literal's body; ok is FALSE on a decode error.
JsonDecFrom(s, acc) ==
  IF s = <<>> THEN [ok |-> TRUE, val |-> acc]
  ELSE LET c == Head(s)
           r == Tail(s)
       IN IF c = BS THEN
            IF r = <<>> THEN [ok |-> FALSE, val |-> <<>>]
            ELSE IF Head(r) = "n" THEN JsonDecFrom(Tail(r), Append(acc, NL))
            ELSE IF Head(r) \in {BS, DQ} THEN JsonDecFrom(Tail(r), Append(acc, Head(r)))
            ELSE [ok |-> FALSE, val |-> <<>>]
          ELSE IF c \in {DQ, NL} THEN [ok |-> FALSE, val |-> <<>>]
          ELSE JsonDecFrom(r, Append(acc, c))

JsonDec(s) == JsonDecFrom(s, <<>>)

\* ------------------------------------------------------------ environment
Modes == {"auto", "http", "adb"}

\* Outcome of the probe's two external calls: `adb forward` (exit code, or an
\* exception / KeyboardInterrupt raised by subprocess.run) and GET /ping
\* (status 200, another status, an exception, a KeyboardInterrupt).  When
\* the forward raises, no ping is sent.
ProbeEnv ==
  {[fwd |-> f, ping |-> p] : f \in {"rc0", "rc1"},
                             p \in {"200", "500", "exc", "interrupt"}}
  \cup {[fwd |-> f, ping |-> "none"] : f \in {"exc", "interrupt"}}
NoProbeEnv == [fwd |-> "none", ping |-> "none"]

\* Outcome of GET /clipboard/get: KeyboardInterrupt, a connection error, a
\* non-2xx status, a 2xx body that is no JSON, or a JSON object: status
\* success with the clipboard as data, status success without a data key,
\* another status.
HttpGetEnv == {"interrupt", "connerr", "non2xx", "bad", "success", "nodata", "other"}

\* Outcome of POST /clipboard/set: the server stores the text and answers
\* with "success" in the body, or answers 2xx without it and stores nothing.
HttpSetEnv == {"interrupt", "connerr", "non2xx", "ok_success", "ok_nosuccess"}

\* A line of `content query` output: without the result= marker ("noise"),
\* or with it and a payload that is no JSON ("bad"), a success object with
\* the clipboard as data ("success"), a success object without data
\* ("nodata"), an object of another status ("other").
LineKinds == {"noise", "bad", "success", "nodata", "other"}
Stdouts == UNION {[1..k -> LineKinds] : k \in 0..MaxLines}

\* Outcome of `adb shell content query`: KeyboardInterrupt, adb cannot be
\* started, a non-zero exit, or exit 0 with some stdout.
AdbGetEnv ==
  {[out |-> o, lines |-> <<>>] : o \in {"interrupt", "spawnerr", "rc1"}}
  \cup {[out |-> "rc0", lines |-> l] : l \in Stdouts}

\* Outcome of `adb shell content insert`: KeyboardInterrupt, adb cannot be
\* started, a non-zero exit before the device ran anything (no device), or
\* the device ran the command.
AdbSetEnv == {"interrupt", "spawnerr", "rc1", "run"}

\* What the query's stdout held, as the two facts the results are stated
\* over: whether any line carries the marker, and the kind of the first
\* marker line that is not an object of another status.
RECURSIVE Decisive(_)
Decisive(lines) ==
  IF lines = <<>> THEN "none"
  ELSE IF Head(lines) \in {"noise", "other"} THEN Decisive(Tail(lines))
  ELSE Head(lines)

Summary(lines) ==
  [marker   |-> \E i \in 1..Len(lines) : lines[i] # "noise",
   decisive |-> Decisive(lines)]
NoResp == [marker |-> FALSE, decisive |-> "none"]

\* ------------------------------------------------------------ results
Str(v)   == [kind |-> "str",  val |-> v,    msg |-> ""]
None     == [kind |-> "None", val |-> <<>>, msg |-> ""]
Bool(b)  == [kind |-> IF b THEN "True" ELSE "False", val |-> <<>>, msg |-> ""]
Raise(m) == [kind |-> "raise", val |-> <<>>, msg |-> m]
Interrupt == [kind |-> "interrupt", val |-> <<>>, msg |-> ""]
NoRet    == [kind |-> "none", val |-> <<>>, msg |-> ""]
Req(r, o) == [r |-> r, out |-> o]

\* ------------------------------------------------------------ adapters
\* outer_json.get('data', '') of a success object whose data is the
\* device's clipboard (JSON encoded by the device, decoded by json.loads).
Payload(kind, clip) ==
  CASE kind = "success" ->
         LET d == JsonDec(JsonEnc(clip))
         IN IF d.ok THEN Str(d.val) ELSE Raise("decode")
    [] kind = "nodata" -> Str(<<>>)
    [] OTHER -> None

\* _get_http: clip.py:104-118
get_http(clip, e) ==
  [reqs |-> <<Req("http_get", e)>>,
   ret  |-> CASE e = "interrupt" -> Interrupt
              [] e \in {"connerr", "non2xx", "bad"} -> Raise("HTTP GET failed")
              [] OTHER ->
                   LET r == Payload(e, clip)
                   IN IF r.kind = "raise" THEN Raise("HTTP GET failed") ELSE r,
   resp |-> IF e \in {"bad", "success", "nodata", "other"}
            THEN [marker |-> TRUE, decisive |-> IF e = "other" THEN "none" ELSE e]
            ELSE NoResp,
   clip |-> clip,
   stored |-> FALSE]

\* _set_http: clip.py:120-140.  The text travels as the JSON body
\* {"text": text}; the server decodes it and stores it.
set_http(clip, text, e) ==
  [reqs |-> <<Req("http_set", e)>>,
   ret  |-> CASE e = "interrupt" -> Interrupt
              [] e \in {"connerr", "non2xx"} -> Raise("HTTP SET failed")
              [] OTHER -> Bool(e = "ok_success"),
   resp |-> NoResp,
   clip |-> IF e = "ok_success" THEN JsonDec(JsonEnc(text)).val ELSE clip,
   stored |-> e = "ok_success"]

RECURSIVE ScanLinesSwallow(_, _)
\* The loop with a try/except around json.loads that skips the line.
ScanLinesSwallow(lines, clip) ==
  IF lines = <<>> THEN None
  ELSE IF Head(lines) = "noise" THEN ScanLinesSwallow(Tail(lines), clip)
  ELSE IF Head(lines) = "bad" THEN ScanLinesSwallow(Tail(lines), clip)
  ELSE IF Head(lines) \in {"success", "nodata"} THEN Payload(Head(lines), clip)
  ELSE ScanLinesSwallow(Tail(lines), clip)

RECURSIVE ScanLines(_, _)
\* The loop of _get_adb over the lines of stdout: clip.py:155-165
ScanLines(lines, clip) ==
  IF lines = <<>> THEN None
  ELSE IF Head(lines) = "noise" THEN ScanLines(Tail(lines), clip)
  ELSE IF Head(lines) = "bad" THEN Raise("decode")
  ELSE IF Head(lines) \in {"success", "nodata"} THEN Payload(Head(lines), clip)
  ELSE ScanLines(Tail(lines), clip)

\* _get_adb without the returncode check: a failed query reads as no content.
get_adb_rc_ignored(clip, e) ==
  [reqs |-> <<Req("adb_get", e.out)>>,
   ret  |-> CASE e.out = "interrupt" -> Interrupt
              [] e.out = "spawnerr" -> Raise("ADB GET failed")
              [] e.out = "rc1" -> None
              [] OTHER ->
                   LET r == ScanLines(e.lines, clip)
                   IN IF r.kind = "raise" THEN Raise("ADB GET failed") ELSE r,
   resp |-> IF e.out = "rc0" THEN Summary(e.lines) ELSE NoResp,
   clip |-> clip,
   stored |-> FALSE]

\* _get_adb: clip.py:142-167
get_adb(clip, e) ==
  [reqs |-> <<Req("adb_get", e.out)>>,
   ret  |-> CASE e.out = "interrupt" -> Interrupt
              [] e.out \in {"spawnerr", "rc1"} -> Raise("ADB GET failed")
              [] OTHER ->
                   LET r == ScanLines(e.lines, clip)
                   IN IF r.kind = "raise" THEN Raise("ADB GET failed") ELSE r,
   resp |-> IF e.out = "rc0" THEN Summary(e.lines) ELSE NoResp,
   clip |-> clip,
   stored |-> FALSE]

\* _set_adb: clip.py:169-196
set_adb(clip, text, e) ==
  LET d == IF e = "run" THEN DeviceInsert(cmd(text), clip) ELSE [rc |-> 1, clip |-> clip]
  IN [reqs |-> <<Req("adb_set", e)>>,
      ret  |-> CASE e = "interrupt" -> Interrupt
                 [] e = "spawnerr" -> Raise("ADB SET failed")
                 [] OTHER -> Bool(d.rc = 0),
      resp |-> NoResp,
      clip |-> d.clip,
      stored |-> e = "run" /\ d.rc = 0]

\* ------------------------------------------------------------ probe
\* _is_http_available without the memo check: a call made when the flag is
\* already set probes again (here the second ping fails).
is_http_available_no_memo(a, pe) ==
  IF pe.fwd = "none"
  THEN [avail |-> "False",
        reqs  |-> <<Req("forward", "rc0"), Req("ping", "exc")>>,
        n     |-> 1]
  ELSE IF pe.fwd \in {"exc", "interrupt"}
  THEN [avail |-> "False", reqs |-> <<Req("forward", pe.fwd)>>, n |-> 1]
  ELSE [avail |-> IF pe.ping = "200" THEN "True" ELSE "False",
        reqs  |-> <<Req("forward", pe.fwd), Req("ping", pe.ping)>>,
        n     |-> 1]

\* _is_http_available: clip.py:61-74.  The bare except turns every
\* exception of the two calls, KeyboardInterrupt included, into False.
is_http_available(a, pe) ==
  IF a # "None" THEN [avail |-> a, reqs |-> <<>>, n |-> 0]
  ELSE IF pe.fwd \in {"exc", "interrupt"}
  THEN [avail |-> "False", reqs |-> <<Req("forward", pe.fwd)>>, n |-> 1]
  ELSE [avail |-> IF pe.ping = "200" THEN "True" ELSE "False",
        reqs  |-> <<Req("forward", pe.fwd), Req("ping", pe.ping)>>,
        n     |-> 1]

\* The probe outcomes drawn for a call that may probe (a = "None").
ProbeEnvFor(a) == IF a = "None" THEN ProbeEnv ELSE {NoProbeEnv}

\* The condition without the probe: auto always takes HTTP.
UseHttpIgnoringProbe(m, a) == m = "http" \/ m = "auto"

\* The condition of get() and set(), given the probe's answer a:
\* clip.py:83 and clip.py:99
UseHttp(m, a) == m = "http" \/ (m = "auto" /\ a = "True")

\* ------------------------------------------------------------ fixtures
\* The texts of the self-test harness, with every run of ordinary
\* characters written as one "a" and the special characters kept in order.
\* run_basic_tests: clip.py:238-249
BasicFixtures ==
  << <<"a">>,                                           \* Simple text
     <<"a">>,                                           \* Emojis
     <<"a", SQ, "a", DQ, "a">>,                         \* Special chars
     <<"a", NL, "a", NL, "a">>,                         \* Multiline
     <<"a">>,                                           \* International
     <<"a", SQ, "a">>,                                  \* Single quote
     <<"a", DQ, "a", DQ>>,                              \* Double quotes
     <<"a", BS, "a", BS, "a">>,                         \* Backslash
     <<"a", SQ, "a", DQ, "a", DQ, "a", SQ, "a", SQ>>,   \* Mixed quotes
     <<>> >>                                            \* Empty string

\* range(10) of the rapid set/get test: clip.py:306
RapidIters == 10
Digits == <<"0", "1", "2", "3", "4", "5", "6", "7", "8", "9">>

\* The texts of run_stress_tests in the order they are used: the large
\* text, the RapidIters texts f"Iteration {i}: ..." (pairwise distinct), the
\* printable ASCII characters 32..126 (which hold ", ' and \ in this order).
\* clip.py:290, 307, 324
StressText(i) ==
  IF i = 1 THEN <<"A", "a">>
  ELSE IF i <= 1 + RapidIters THEN <<"a", Digits[i - 1], "a">>
  ELSE <<"a", DQ, "a", SQ, "a", BS, "a">>
NStress == RapidIters + 2

\* ------------------------------------------------------------ state
VARIABLES
  method,          \* self.method of the facade in use
  http_available,  \* self._http_available: "None", "True" or "False"
  clipboard,       \* the device's clipboard text
  pc,              \* "start", "lib" (calls by an importing program),
                   \* "test" (main runs the harness), "exit" (main returned)
  op,              \* the last facade call: "none", "get", "set", "probe"
  reqs,            \* the external requests that call issued, with outcomes
  ret,             \* what that call returned or raised
  resp,            \* what the payload of that call's clipboard read held
  lastSet,         \* the text of the latest set(), and whether the device stored it
  probes,          \* how many times the facade in use ran the probe
  sent,            \* the transports it sent clipboard requests to
  exit,            \* main's return value: <<>> until main returns, then <<code>>
  out,             \* what main printed last
  t,               \* the harness: suites selected, position, tallies
  texts            \* the texts callers pass to set() (fixed in a behaviour)

vars == <<method, http_available, clipboard, pc, op, reqs, ret, resp, lastSet,
          probes, sent, exit, out, t, texts>>

Running == <<>>
Returned(code) == <<code>>
NoOut == [msg |-> "none", text |-> <<>>]
NoTest == [only |-> "none", suite |-> "none", i |-> 0, step |-> "none",
           passed |-> 0, succ |-> 0, basic_passed |-> FALSE,
           stress_passed |-> FALSE, label |-> "none"]

InitWith(T) ==
  /\ texts = T
  /\ method \in Modes
  /\ http_available = "None"
  /\ clipboard \in T
  /\ pc = "start"
  /\ op = "none"
  /\ reqs = <<>>
  /\ ret = NoRet
  /\ resp = NoResp
  /\ lastSet = [ok |-> FALSE, text |-> <<>>]
  /\ probes = 0
  /\ sent = {}
  /\ exit = Running
  /\ out = NoOut
  /\ t = NoTest

\* ------------------------------------------------------------ facade
\* The transport a clipboard request goes to.
Transport(r) == IF r \in {"http_get", "http_set"} THEN "http" ELSE "adb"

\* The effect of one adapter call r made after probe result p.
Finish(name, p, r, text) ==
  /\ op' = name
  /\ http_available' = p.avail
  /\ probes' = probes + p.n
  /\ reqs' = p.reqs \o r.reqs
  /\ ret' = r.ret
  /\ resp' = r.resp
  /\ clipboard' = r.clip
  /\ sent' = sent \cup {Transport(r.reqs[k].r) : k \in 1..Len(r.reqs)}
  /\ lastSet' = IF name = "set"
                THEN [ok |-> r.stored, text |-> IF r.stored THEN text ELSE <<>>]
                ELSE lastSet

NoProbe(a) == [avail |-> a, reqs |-> <<>>, n |-> 0]

\* A get() that falls back to the shell transport when HTTP fails.
get_with_fallback(m, a) ==
  \E pe \in ProbeEnvFor(IF m = "auto" THEN a ELSE "skip") :
    LET p == IF m = "auto" THEN is_http_available(a, pe) ELSE NoProbe(a)
    IN IF UseHttp(m, p.avail)
       THEN \E e \in HttpGetEnv : \E e2 \in AdbGetEnv :
              LET r == get_http(clipboard, e)
                  r2 == get_adb(clipboard, e2)
              IN IF r.ret.kind = "raise"
                 THEN Finish("get", p, [r2 EXCEPT !.reqs = r.reqs \o r2.reqs], <<>>)
                 ELSE Finish("get", p, r, <<>>)
       ELSE \E e \in AdbGetEnv : Finish("get", p, get_adb(clipboard, e), <<>>)

\* DroidrunClipboard.get on a facade of method m whose flag is a: clip.py:76-86
get(m, a) ==
  \E pe \in ProbeEnvFor(IF m = "auto" THEN a ELSE "skip") :
    LET p == IF m = "auto" THEN is_http_available(a, pe) ELSE NoProbe(a)
    IN IF UseHttp(m, p.avail)
       THEN \E e \in HttpGetEnv : Finish("get", p, get_http(clipboard, e), <<>>)
       ELSE \E e \in AdbGetEnv : Finish("get", p, get_adb(clipboard, e), <<>>)

\* DroidrunClipboard.set: clip.py:88-102
set(m, a, text) ==
  \E pe \in ProbeEnvFor(IF m = "auto" THEN a ELSE "skip") :
    LET p == IF m = "auto" THEN is_http_available(a, pe) ELSE NoProbe(a)
    IN IF UseHttp(m, p.avail)
       THEN \E e \in HttpSetEnv : Finish("set", p, set_http(clipboard, text, e), text)
       ELSE \E e \in AdbSetEnv : Finish("set", p, set_adb(clipboard, text, e), text)

\* A direct call of _is_http_available, as run_all_tests makes: clip.py:353
probe(a) ==
  \E pe \in ProbeEnvFor(a) :
    LET p == is_http_available(a, pe)
    IN /\ op' = "probe"
       /\ http_available' = p.avail
       /\ probes' = probes + p.n
       /\ reqs' = p.reqs
       /\ ret' = Bool(p.avail = "True")
       /\ resp' = NoResp
       /\ UNCHANGED <<clipboard, lastSet, sent>>

\* ------------------------------------------------------------ library use
\* A program that imported the module calls the facade in any order.
Lib == pc \in {"start", "lib"}

Get ==
  /\ Lib
  /\ get(method, http_available)
  /\ pc' = "lib"
  /\ UNCHANGED <<method, exit, out, t, texts>>

Set ==
  /\ Lib
  /\ \E text \in texts : set(method, http_available, text)
  /\ pc' = "lib"
  /\ UNCHANGED <<method, exit, out, t, texts>>

IsHttpAvailable ==
  /\ Lib
  /\ probe(http_available)
  /\ pc' = "lib"
  /\ UNCHANGED <<method, exit, out, t, texts>>

\* ------------------------------------------------------------ main
Printed(m, v) == [msg |-> m, text |-> v]

\* The `get` branch testing `if text:` instead of `if text is not None:`.
main_get_result_truthy(r) ==
  CASE r.kind = "interrupt" -> [exit |-> Returned(130), out |-> Printed("Interrupted by user", <<>>)]
    [] r.kind = "raise" -> [exit |-> Returned(1), out |-> Printed("Error", <<>>)]
    [] r.kind = "str" /\ r.val # <<>> -> [exit |-> Returned(0), out |-> Printed("text", r.val)]
    [] OTHER -> [exit |-> Returned(1), out |-> Printed("(Clipboard is empty)", <<>>)]

\* The `get` branch of main and its two except clauses, on what
\* get_clipboard() returned or raised: clip.py:427-434, 458-463
main_get_result(r) ==
  CASE r.kind = "interrupt" -> [exit |-> Returned(130), out |-> Printed("Interrupted by user", <<>>)]
    [] r.kind = "raise" -> [exit |-> Returned(1), out |-> Printed("Error", <<>>)]
    [] r.kind = "str" -> [exit |-> Returned(0), out |-> Printed("text", r.val)]
    [] OTHER -> [exit |-> Returned(1), out |-> Printed("(Clipboard is empty)", <<>>)]

\* The `set` branch of main on what set_clipboard() returned or raised:
\* clip.py:442-448, 458-463
main_set_result(r) ==
  CASE r.kind = "interrupt" -> [exit |-> Returned(130), out |-> Printed("Interrupted by user", <<>>)]
    [] r.kind = "raise" -> [exit |-> Returned(1), out |-> Printed("Error", <<>>)]
    [] r.kind = "True" -> [exit |-> Returned(0), out |-> Printed("Clipboard set successfully", <<>>)]
    [] OTHER -> [exit |-> Returned(1), out |-> Printed("Failed to set clipboard", <<>>)]

\* main() replaces the global facade by one of the requested method
\* (clip.py:424) and runs one action; it is entered once, at process start.
MainGet ==
  /\ pc = "start"
  /\ \E m \in Modes :
       /\ method' = m
       /\ get(m, "None")
  /\ exit' = main_get_result(ret').exit
  /\ out' = main_get_result(ret').out
  /\ pc' = "exit"
  /\ UNCHANGED <<t, texts>>

\* `set` with a text argument: clip.py:442-448
MainSet ==
  /\ pc = "start"
  /\ \E m \in Modes, text \in texts :
       /\ method' = m
       /\ set(m, "None", text)
  /\ exit' = main_set_result(ret').exit
  /\ out' = main_set_result(ret').out
  /\ pc' = "exit"
  /\ UNCHANGED <<t, texts>>

\* `set` without a text argument: clip.py:437-440
MainSetNoText ==
  /\ pc = "start"
  /\ method' \in Modes
  /\ exit' = Returned(1)
  /\ out' = Printed("Error: Text argument required", <<>>)
  /\ pc' = "exit"
  /\ UNCHANGED <<http_available, clipboard, op, reqs, ret, resp, lastSet, probes, sent,
                 t, texts>>

\* `test`: --basic wins over --stress, neither runs both: clip.py:450-456
MainTest ==
  /\ pc = "start"
  /\ method' \in Modes
  /\ \E basic \in BOOLEAN, stress \in BOOLEAN :
       LET only == IF basic THEN "basic" ELSE IF stress THEN "stress" ELSE "all"
       IN t' = [NoTest EXCEPT !.only = only,
                              !.suite = IF only = "stress" THEN "stress" ELSE "basic",
                              !.i = 1,
                              !.step = "set"]
  /\ pc' = "test"
  /\ UNCHANGED <<http_available, clipboard, op, reqs, ret, resp, lastSet, probes, sent,
                 exit, out, texts>>

\* ------------------------------------------------------------ harness
NBasic == Len(BasicFixtures)
CaseText(tt) == IF tt.suite = "basic" THEN BasicFixtures[tt.i] ELSE StressText(tt.i)
Inc(b) == IF b THEN 1 ELSE 0

\* The suite after `basic` ended with `passed` cases passed:
\* clip.py:273, 345-346, 452
AfterBasic(tt, passed) ==
  [tt EXCEPT !.basic_passed = (passed = NBasic),
             !.passed = 0, !.succ = 0, !.i = IF tt.only = "all" THEN 1 ELSE 0,
             !.step = IF tt.only = "all" THEN "set" ELSE "none",
             !.suite = IF tt.only = "all" THEN "stress" ELSE "done"]

\* clip.py:340, 346-352, 454
AfterStress(tt, passed) ==
  [tt EXCEPT !.stress_passed = (passed = 3),
             !.passed = 0, !.succ = 0, !.i = 0, !.step = "none",
             !.suite = IF tt.only = "all" THEN "final" ELSE "done"]

\* The harness after the case at t.i ended with o: "pass" (retrieved ==
\* text), "fail" (it differs) or "error" (an Exception was caught).
\* run_basic_tests: clip.py:251-266; run_stress_tests: clip.py:286-333
Advance(tt, o) ==
  IF tt.suite = "basic" THEN
    IF tt.i < NBasic
    THEN [tt EXCEPT !.i = @ + 1, !.step = "set", !.passed = @ + Inc(o = "pass")]
    ELSE AfterBasic(tt, tt.passed + Inc(o = "pass"))
  ELSE IF tt.i = 1 THEN
    [tt EXCEPT !.i = 2, !.step = "set", !.passed = @ + Inc(o = "pass")]
  ELSE IF tt.i = NStress THEN
    AfterStress(tt, tt.passed + Inc(o = "pass"))
  ELSE IF o = "error" THEN
    [tt EXCEPT !.i = NStress, !.step = "set", !.succ = 0]
  ELSE IF tt.i < 1 + RapidIters THEN
    [tt EXCEPT !.i = @ + 1, !.step = "set", !.succ = @ + Inc(o = "pass")]
  ELSE
    [tt EXCEPT !.i = NStress, !.step = "set", !.succ = 0,
               !.passed = @ + Inc(tt.succ + Inc(o = "pass") = RapidIters)]

\* What main does once the harness step left tt: return when a single
\* suite is done, go on otherwise; a KeyboardInterrupt leaves through
\* main's handler (clip.py:458-460).
Step(tt, interrupted) ==
  IF interrupted THEN
    /\ t' = [tt EXCEPT !.suite = "done", !.step = "none"]
    /\ exit' = Returned(130)
    /\ out' = Printed("Interrupted by user", <<>>)
    /\ pc' = "exit"
  ELSE IF tt.suite = "done" THEN
    /\ t' = tt
    /\ exit' = IF (tt.only = "basic" /\ tt.basic_passed)
                  \/ (tt.only = "stress" /\ tt.stress_passed)
               THEN Returned(0) ELSE Returned(1)
    /\ out' = out
    /\ pc' = "exit"
  ELSE
    /\ t' = tt
    /\ UNCHANGED <<exit, out, pc>>

\* set_clipboard(text) of the current case; its return value is not looked
\* at: clip.py:254, 291, 308, 325
TestSet ==
  /\ pc = "test"
  /\ t.step = "set"
  /\ set(method, http_available, CaseText(t))
  /\ CASE ret'.kind = "interrupt" -> Step(t, TRUE)
       [] ret'.kind = "raise" -> Step(Advance(t, "error"), FALSE)
       [] OTHER -> Step([t EXCEPT !.step = "get"], FALSE)
  /\ UNCHANGED <<method, texts>>

\* get_clipboard() of the current case and the comparison with its text:
\* clip.py:255-256, 292-293, 309, 326-327
TestGet ==
  /\ pc = "test"
  /\ t.step = "get"
  /\ get(method, http_available)
  /\ CASE ret'.kind = "interrupt" -> Step(t, TRUE)
       [] ret'.kind = "raise" -> Step(Advance(t, "error"), FALSE)
       [] ret'.kind = "str" /\ ret'.val = CaseText(t) -> Step(Advance(t, "pass"), FALSE)
       [] OTHER -> Step(Advance(t, "fail"), FALSE)
  /\ UNCHANGED <<method, texts>>

\* The transport run_all_tests names: clip.py:352-356
MethodUsed(a) == IF a = "True" THEN "HTTP Socket Server" ELSE "ADB ContentProvider"

\* The end of run_all_tests: clip.py:348-363
TestFinal ==
  /\ pc = "test"
  /\ t.suite = "final"
  /\ probe(http_available)
  /\ t' = [t EXCEPT !.suite = "done", !.label = MethodUsed(http_available')]
  /\ out' = Printed(MethodUsed(http_available'), <<>>)
  /\ exit' = IF t.basic_passed /\ t.stress_passed THEN Returned(0) ELSE Returned(1)
  /\ pc' = "exit"
  /\ UNCHANGED <<method, texts>>

Next ==
  \/ Get
  \/ Set
  \/ IsHttpAvailable
  \/ MainGet
  \/ MainSet
  \/ MainSetNoText
  \/ MainTest
  \/ TestSet
  \/ TestGet
  \/ TestFinal

Init == InitWith(TextsUpTo(MaxShort))
InitText == InitWith(TextsUpTo(MaxLen))

Spec == Init /\ [][Next]_vars
SpecText == InitText /\ [][Next]_vars

\* ------------------------------------------------------------ properties
ClipReqs == {"http_get", "http_set", "adb_get", "adb_set"}
\* The clipboard requests among the requests of the last call.
ClipIdx == {k \in 1..Len(reqs) : reqs[k].r \in ClipReqs}
\* The last request of the last call.
Last == reqs[Len(reqs)]
IsCall == op \in {"get", "set"} /\ reqs # <<>>

\* C1: a facade in auto mode whose probe reported unavailable has sent no
\* HTTP clipboard request, and each of its get()/set() calls went to the
\* shell transport.
C1_AutoUnavailableUsesShell ==
  (method = "auto" /\ http_available = "False") =>
    /\ "http" \notin sent
    /\ \A k \in 1..Len(reqs) : reqs[k].r \notin {"http_get", "http_set"}
    /\ (op \in {"get", "set"} =>
          Last.r = IF op = "get" THEN "adb_get" ELSE "adb_set")

\* A get() of an auto facade made after the probe had reported unavailable
\* (the call did not probe) went to the shell transport.
C1_Witness ==
  /\ method = "auto" /\ http_available = "False" /\ probes = 1
  /\ op = "get" /\ Len(reqs) = 1 /\ Last.r = "adb_get"

\* C2: what the device's shell hands to `content insert` after set(s) on
\* the shell transport is text:s: followed by exactly s (so the device
\* stores s), the command being valid for every s; and on each transport a
\* get() that reads the stored clipboard back returns exactly s.
C2_RoundTripWithEscaping ==
  /\ (op = "set" /\ reqs # <<>> /\ Last = Req("adb_set", "run")) =>
       /\ ret.kind = "True"
       /\ lastSet.ok
       /\ clipboard = lastSet.text
  /\ (op = "get" /\ lastSet.ok /\ resp.decisive = "success") =>
       ret = Str(lastSet.text)

\* C3: a KeyboardInterrupt raised in any external call made while main runs
\* an action ends main with exit code 130 (the action does not go on).
C3_InterruptExits130 ==
  (pc \in {"test", "exit"} /\ \E k \in 1..Len(reqs) : reqs[k].out = "interrupt") =>
    (pc = "exit" /\ exit = Returned(130))

\* C4 as claimed: in each of the four adapter operations a non-zero exit of
\* the device-bridge process or a non-2xx response raises the failure with
\* the method-qualified message.
C4_CommandFailureRaises ==
  (IsCall /\ Last.out \in {"rc1", "non2xx"}) =>
    ret = Raise(CASE Last.r = "http_get" -> "HTTP GET failed"
                  [] Last.r = "http_set" -> "HTTP SET failed"
                  [] Last.r = "adb_get" -> "ADB GET failed"
                  [] OTHER -> "ADB SET failed")

\* C4 as amended: HTTP get, HTTP set and shell get raise the failure with
\* their method-qualified message; shell set reports a non-zero exit by
\* returning False and raises nothing.
C4_CommandFailureSignalled ==
  (IsCall /\ Last.out \in {"rc1", "non2xx"}) =>
    CASE Last.r = "http_get" -> ret = Raise("HTTP GET failed")
      [] Last.r = "http_set" -> ret = Raise("HTTP SET failed")
      [] Last.r = "adb_get" -> ret = Raise("ADB GET failed")
      [] OTHER -> ret = Bool(FALSE)

\* A shell get whose query exited non-zero raised "ADB GET failed".
C4_Witness ==
  /\ op = "get" /\ Len(reqs) = 1 /\ Last = Req("adb_get", "rc1")
  /\ ret = Raise("ADB GET failed")

\* C5 as claimed: a query that exits 0 with no marker line, or with a
\* marker line whose payload is no JSON, makes the shell get() raise
\* "ADB GET failed".
C5_MalformedRaises ==
  (op = "get" /\ reqs # <<>> /\ Last = Req("adb_get", "rc0")
     /\ (~resp.marker \/ resp.decisive = "bad")) =>
    ret = Raise("ADB GET failed")

\* C5 as amended: a marker line whose payload is no JSON, met before any
\* success-marked line, makes the shell get() raise "ADB GET failed"; a
\* stdout without any marker line makes it return None.
C5_MalformedSplit ==
  (op = "get" /\ reqs # <<>> /\ Last = Req("adb_get", "rc0")) =>
    /\ resp.decisive = "bad" => ret = Raise("ADB GET failed")
    /\ ~resp.marker => ret = None

\* A shell get() met an undecodable payload and raised.
C5_Witness ==
  /\ op = "get" /\ reqs # <<>> /\ Last = Req("adb_get", "rc0")
  /\ resp.decisive = "bad" /\ ret = Raise("ADB GET failed")

\* The clipboard read of the last call got an answer to parse.
Answered == IsCall /\ Last.out \in {"rc0", "bad", "success", "nodata", "other"}
\* main ran the `get` action and returned.
CliGet == pc = "exit" /\ t.only = "none" /\ op = "get"

\* C6: when the transport reports status success with empty data, get()
\* returns the empty string on both transports, and the CLI get prints it
\* and exits 0; the CLI exits 1 with the "(Clipboard is empty)" placeholder
\* exactly when get() returned None, which it does exactly when the answer
\* holds no decodable success-marked payload.
C6_EmptyStringIsNotNone ==
  /\ (op = "get" /\ Answered /\ resp.decisive = "success" /\ clipboard = <<>>) =>
       ret = Str(<<>>)
  /\ (op = "get" /\ Answered) => (ret = None <=> resp.decisive = "none")
  /\ CliGet =>
       /\ ret = Str(<<>>) => (exit = Returned(0) /\ out = Printed("text", <<>>))
       /\ (exit = Returned(1) /\ out.msg = "(Clipboard is empty)") <=> ret = None

\* The CLI get of an empty clipboard, read over the shell transport,
\* printed the empty string and exited 0.
C6_Witness ==
  /\ CliGet /\ Last = Req("adb_get", "rc0")
  /\ resp.decisive = "success" /\ clipboard = <<>>
  /\ ret = Str(<<>>) /\ exit = Returned(0) /\ out = Printed("text", <<>>)

\* C7: a get() that reads the clipboard back after a set(s) the device
\* carried out returns s, whatever the clipboard held before and however
\* many sets came before; in the harness each rapid cycle whose set and get
\* reached the device counts as a success.
C7_GetReturnsLastSet ==
  /\ (op = "get" /\ Answered /\ lastSet.ok /\ resp.decisive = "success") =>
       (ret.kind = "str" /\ ret.val = lastSet.text)
  /\ (pc = "test" /\ t.suite = "stress" /\ t.step = "set" /\ op = "get"
        /\ t.i \in 3..(1 + RapidIters)
        /\ Answered /\ lastSet.ok /\ resp.decisive = "success") =>
       (t.succ >= 1 /\ ret.val = StressText(t.i - 1))

\* C8: the flag starts None, the probe runs at most once per facade, and
\* once the flag is True or False no step changes it or probes again.
C8_AvailabilityWriteOnce ==
  [][/\ probes' <= 1
     /\ (probes' = 0 <=> http_available' = "None")
     /\ (http_available # "None" =>
           (http_available' = http_available /\ probes' = probes))]_vars

\* An HTTP request failed after the probe had reported available, and the
\* flag is still True.
C8_Witness ==
  /\ method = "auto" /\ http_available = "True" /\ probes = 1
  /\ op = "get" /\ Len(reqs) = 1 /\ ret = Raise("HTTP GET failed")

\* C9: each get()/set() sends exactly one clipboard request, the last
\* thing it does, to one transport; when the request fails the call ends
\* in that failure (raised, or False from the shell set) and nothing was
\* sent to the other transport, also in auto mode after an available probe.
C9_OneRequestNoFallback ==
  IsCall =>
    /\ Cardinality(ClipIdx) = 1
    /\ Last.r \in ClipReqs
    /\ Last.out \in {"connerr", "non2xx", "bad", "spawnerr", "rc1"} =>
         ret.kind \in {"raise", "False"}
    /\ Last.out = "interrupt" => ret = Interrupt
    /\ (method = "auto" /\ http_available = "True") => sent = {"http"}

\* In auto mode, after an available probe, the HTTP get failed: the call
\* raised and nothing went to the shell transport.
C9_Witness ==
  /\ method = "auto" /\ http_available = "True"
  /\ op = "get" /\ Last = Req("http_get", "non2xx")
  /\ ret = Raise("HTTP GET failed") /\ sent = {"http"}

\* C10: run_all_tests names the transport the suites' calls went to, and
\* returns 0 exactly when both suites passed.
C10_ReportsTransportUsed ==
  (pc = "exit" /\ t.label # "none") =>
    /\ t.label = "HTTP Socket Server" <=> sent = {"http"}
    /\ t.label = "ADB ContentProvider" <=> sent = {"adb"}
    /\ exit = Returned(0) <=> (t.basic_passed /\ t.stress_passed)
====
